---- MODULE Spec2Model ----
(***************************************************************************)
(* Steganographer: least-significant-bit embedding of an ASCII message in  *)
(* the channel values of a pixel grid (src/steganographer.py).             *)
(*                                                                         *)
(* Python values are modelled as follows.  A character is its code point,  *)
(* a string is a sequence of code points, a string of binary digits is a   *)
(* sequence over {0, 1}.  A pixel is a tuple (an immutable value) of       *)
(* integer intensities.  A list is an object of the store: `store` is the  *)
(* sequence of all list objects built so far and a reference is an index   *)
(* into it.  An image is a list of references to row lists, a row list     *)
(* holds pixel tuples.                                                     *)
(***************************************************************************)
EXTENDS Integers, Sequences, FiniteSets, TLC

(***************************************************************************)
(* Bounds of the model and the inputs drawn in Init.                       *)
(***************************************************************************)
MaxRows == 2
MaxCols == 3
MaxLen == 3

\* Channel arities of the sampled grids: RGB and RGBA.
Arities == {3, 4}

\* Message alphabet: NUL, SI (00001111) and 'P' (01010000); "P" followed by SI
\* holds 8 zero bits in a row that are not 8-aligned.
Chars == {0, 15, 80}

\* Sample images: all zero; LSBs 0,1,0,1,0 repeated; a lone 1 every 11 slots;
\* one group that is not zero, then a zero group, then ones.
Samples == 1..4

\* Intensity of channel slot i (0-based, in reading order) of sample image p.
SampleIntensity(p, i) ==
    CASE p = 1 -> 0
      [] p = 2 -> <<128, 77, 254, 1, 2>>[(i % 5) + 1]
      [] p = 3 -> IF i % 11 = 0 THEN 201 ELSE 100
      [] OTHER -> IF i < 8 THEN 129 ELSE IF i < 16 THEN 64 ELSE 255

MakeGrid(h, w, a, p) ==
    [r \in 1..h |-> [c \in 1..w |->
        [ch \in 1..a |-> SampleIntensity(p, ((r - 1) * w + (c - 1)) * a + (ch - 1))]]]

Grids ==
    {MakeGrid(h, w, a, p) : h \in 0..MaxRows, w \in 0..MaxCols, a \in Arities, p \in Samples}

RECURSIVE SeqsUpTo(_, _)
SeqsUpTo(S, n) ==
    IF n = 0 THEN {<<>>}
    ELSE LET shorter == SeqsUpTo(S, n - 1)
         IN shorter \cup {Append(s, x) : s \in shorter, x \in S}

Messages == SeqsUpTo(Chars, MaxLen)

(***************************************************************************)
(* Constants of the program.                                               *)
(***************************************************************************)
BYTE_LENGTH == 8
ZERO_BYTE == <<0, 0, 0, 0, 0, 0, 0, 0>>

(***************************************************************************)
(* The bits module (imported, not part of the source file): its four       *)
(* operations as the specification describes them.                         *)
(***************************************************************************)
RECURSIVE Pow2(_)
Pow2(n) == IF n = 0 THEN 1 ELSE 2 * Pow2(n - 1)

\* The bit of n at position pos (position 0 is the least significant bit).
get_bit(n, pos) == (n \div Pow2(pos)) % 2

\* n with the bit at position pos replaced by bit.
set_bit(n, bit, pos) == n - get_bit(n, pos) * Pow2(pos) + bit * Pow2(pos)

\* The 8 binary digits of a character, most significant first.
char_to_bits(c) == [i \in 1..BYTE_LENGTH |-> get_bit(c, BYTE_LENGTH - i)]

RECURSIVE BinaryValue(_, _)
BinaryValue(b, n) ==
    IF n = 0 THEN 0 ELSE 2 * BinaryValue(b, n - 1) + b[n]

\* The character whose code is the value of the 8 digits (-1: malformed group).
bits_to_char(b) ==
    IF Len(b) # BYTE_LENGTH \/ \E i \in 1..Len(b) : b[i] \notin {0, 1}
    THEN -1
    ELSE BinaryValue(b, Len(b))

(***************************************************************************)
(* message_to_bits                                                         *)
(***************************************************************************)
RECURSIVE message_to_bits(_)
message_to_bits(text) ==
    IF text = <<>> THEN <<>>
    ELSE char_to_bits(Head(text)) \o message_to_bits(Tail(text))

(***************************************************************************)
(* The store of list objects.                                              *)
(***************************************************************************)
\* A store holding one image: its row lists, then the list of their references.
StoreOf(grid) == Append(grid, [r \in 1..Len(grid) |-> r])

\* The grid (rows of pixel tuples) an image reference stands for.
Value(st, ref) == [r \in 1..Len(st[ref]) |-> st[st[ref][r]]]

\* `[]`: a new empty list object; its reference is NewRef of the store before.
NewRef(st) == Len(st) + 1
NewList(st) == Append(st, <<>>)

\* lst.append(x) on the list object ref.
ListAppend(st, ref, x) == [st EXCEPT ![ref] = Append(@, x)]

(***************************************************************************)
(* encode                                                                  *)
(***************************************************************************)
\* Variants of EncodeIntensity below: one that pads with 1 instead of 0, one
\* that writes bit 1 instead of bit 0, one that never advances index.
EncodeIntensityOnes(intensity, binarymsg, index) ==
    IF index < Len(binarymsg)
    THEN [value |-> set_bit(intensity, binarymsg[index + 1], 0), index |-> index + 1]
    ELSE [value |-> set_bit(intensity, 1, 0), index |-> index]

EncodeIntensityBit1(intensity, binarymsg, index) ==
    IF index < Len(binarymsg)
    THEN [value |-> set_bit(intensity, binarymsg[index + 1], 1), index |-> index + 1]
    ELSE [value |-> set_bit(intensity, 0, 1), index |-> index]

EncodeIntensityStuck(intensity, binarymsg, index) ==
    IF index < Len(binarymsg)
    THEN [value |-> set_bit(intensity, binarymsg[index + 1], 0), index |-> index]
    ELSE [value |-> set_bit(intensity, 0, 0), index |-> index]

\* One intensity, lines 203-210: the next message bit while any is left,
\* otherwise 0, written to bit 0.  binarymsg[index] is 0-based in the source;
\* int(intensity) is the intensity itself, intensities being integers.  The
\* source passes the message bit as a digit character and the padding as the
\* integer 0; set_bit is taken to accept either as the bit 0 or 1.
EncodeIntensity(intensity, binarymsg, index) ==
    IF index < Len(binarymsg)
    THEN [value |-> set_bit(intensity, binarymsg[index + 1], 0), index |-> index + 1]
    ELSE [value |-> set_bit(intensity, 0, 0), index |-> index]

\* Lines 202-210: "for intensity in pixel", from channel i on.
RECURSIVE EncodePixel(_, _, _, _, _)
EncodePixel(pixel, i, new_pixel, binarymsg, index) ==
    IF i > Len(pixel)
    THEN [new_pixel |-> new_pixel, index |-> index]
    ELSE LET r == EncodeIntensity(pixel[i], binarymsg, index)
         IN EncodePixel(pixel, i + 1, Append(new_pixel, r.value), binarymsg, r.index)

\* Line 211: output[current_row].append(tuple(new_pixel)); current_row is 0-based.
AppendPixel(st, output, current_row, new_pixel) ==
    ListAppend(st, st[output][current_row + 1], new_pixel)

\* Lines 201-211: "for pixel in row", from pixel j on.  e is the state of the
\* loops: the store, the index into binarymsg and current_row.
RECURSIVE EncodeRow(_, _, _, _, _)
EncodeRow(e, output, row, j, binarymsg) ==
    IF j > Len(e.store[row])
    THEN e
    ELSE LET p == EncodePixel(e.store[row][j], 1, <<>>, binarymsg, e.index)
         IN EncodeRow([e EXCEPT !.store = AppendPixel(e.store, output, e.current_row, p.new_pixel),
                                !.index = p.index],
                      output, row, j + 1, binarymsg)

\* A variant of NextRow that leaves current_row where it is.
NextRowStuck(current_row) == current_row

\* Line 212: current_row += 1.
NextRow(current_row) == current_row + 1

\* Lines 199-212: "for row in image", from row r on.  Line 200 appends a new
\* empty list to output.
RECURSIVE EncodeRows(_, _, _, _, _)
EncodeRows(e, output, image, r, binarymsg) ==
    IF r > Len(e.store[image])
    THEN e
    ELSE LET row == NewRef(e.store)
             started == [e EXCEPT !.store = ListAppend(NewList(e.store), output, row)]
             filled == EncodeRow(started, output, e.store[image][r], 1, binarymsg)
         IN EncodeRows([filled EXCEPT !.current_row = NextRow(filled.current_row)],
                       output, image, r + 1, binarymsg)

\* An encoder that writes the new rows back into the rows of its argument.
encode_in_place(st, image, message) ==
    LET e == EncodeRows([store |-> NewList(st), index |-> 0, current_row |-> 0],
                        NewRef(st), image, 1, message_to_bits(message))
        rows == st[image]
        new == Value(e.store, NewRef(st))
    IN [store |-> [ref \in 1..Len(st) |->
                      IF \E r \in 1..Len(rows) : rows[r] = ref
                      THEN new[CHOOSE r \in 1..Len(rows) : rows[r] = ref]
                      ELSE st[ref]],
        output |-> image]

\* Lines 195-213.  The result: the store after the call and the reference returned.
encode(st, image, message) ==
    LET binarymsg == message_to_bits(message)
        output == NewRef(st)
        e == EncodeRows([store |-> NewList(st), index |-> 0, current_row |-> 0],
                        output, image, 1, binarymsg)
    IN [store |-> e.store, output |-> output]

(***************************************************************************)
(* decode                                                                  *)
(***************************************************************************)
\* The state of decode's loops: output, curr_chunk, and whether line 237 has
\* returned.
DecodeStart == [output |-> <<>>, curr_chunk |-> <<>>, returned |-> FALSE]

\* Variants of the loop body: one that appends the zero byte before returning,
\* one that appends it and goes on, one that drops it and goes on, one that
\* never empties curr_chunk.
DecodeNumAppendsTerminator(d, num) ==
    LET chunk == Append(d.curr_chunk, get_bit(num, 0))
    IN IF Len(chunk) = BYTE_LENGTH
       THEN [d EXCEPT !.output = Append(@, bits_to_char(chunk)), !.curr_chunk = <<>>,
                      !.returned = (chunk = ZERO_BYTE)]
       ELSE [d EXCEPT !.curr_chunk = chunk]

DecodeNumNoStop(d, num) ==
    LET chunk == Append(d.curr_chunk, get_bit(num, 0))
    IN IF Len(chunk) = BYTE_LENGTH
       THEN [d EXCEPT !.output = Append(@, bits_to_char(chunk)), !.curr_chunk = <<>>]
       ELSE [d EXCEPT !.curr_chunk = chunk]

DecodeNumSkipsTerminator(d, num) ==
    LET chunk == Append(d.curr_chunk, get_bit(num, 0))
    IN IF Len(chunk) = BYTE_LENGTH
       THEN IF chunk = ZERO_BYTE
            THEN [d EXCEPT !.curr_chunk = <<>>]
            ELSE [d EXCEPT !.output = Append(@, bits_to_char(chunk)), !.curr_chunk = <<>>]
       ELSE [d EXCEPT !.curr_chunk = chunk]

DecodeNumKeepsChunk(d, num) ==
    LET chunk == Append(d.curr_chunk, get_bit(num, 0))
    IN IF Len(chunk) = BYTE_LENGTH
       THEN IF chunk = ZERO_BYTE
            THEN [d EXCEPT !.curr_chunk = chunk, !.returned = TRUE]
            ELSE [d EXCEPT !.output = Append(@, bits_to_char(chunk)), !.curr_chunk = chunk]
       ELSE [d EXCEPT !.curr_chunk = chunk]

\* Lines 232-240: the body of the innermost loop for one channel value.
DecodeNum(d, num) ==
    LET chunk == Append(d.curr_chunk, get_bit(num, 0))
    IN IF Len(chunk) = BYTE_LENGTH
       THEN IF chunk = ZERO_BYTE
            THEN [d EXCEPT !.curr_chunk = chunk, !.returned = TRUE]
            ELSE [d EXCEPT !.output = Append(@, bits_to_char(chunk)), !.curr_chunk = <<>>]
       ELSE [d EXCEPT !.curr_chunk = chunk]

\* Lines 231-240: "for num in pixel", from channel i on.
RECURSIVE DecodePixel(_, _, _)
DecodePixel(d, pixel, i) ==
    IF d.returned \/ i > Len(pixel) THEN d
    ELSE DecodePixel(DecodeNum(d, pixel[i]), pixel, i + 1)

\* Lines 230-240: "for pixel in row", from pixel j on.
RECURSIVE DecodeRow(_, _, _)
DecodeRow(d, row, j) ==
    IF d.returned \/ j > Len(row) THEN d
    ELSE DecodeRow(DecodePixel(d, row[j], 1), row, j + 1)

\* Lines 229-240: "for row in image", from row r on.
RECURSIVE DecodeRows(_, _, _)
DecodeRows(d, grid, r) ==
    IF d.returned \/ r > Len(grid) THEN d
    ELSE DecodeRows(DecodeRow(d, grid[r], 1), grid, r + 1)

\* A decoder that returns the message only when it found the zero byte.
decode_needs_terminator(st, image) ==
    LET r == DecodeRows(DecodeStart, Value(st, image), 1)
    IN IF r.returned THEN r.output ELSE <<>>

\* Lines 226-241: the string returned, at line 237 or at line 241.
decode(st, image) == DecodeRows(DecodeStart, Value(st, image), 1).output

(***************************************************************************)
(* The program as a state machine.  Under Spec a caller holds an image and *)
(* a message, calls encode once (line 251) and decode (line 254) on the    *)
(* image or on the encoded image; each call is one step.  The arguments    *)
(* are those the two functions accept, the empty message and messages      *)
(* with a NUL included.  Under SpecDecode one call of decode is unfolded   *)
(* into the iterations of its innermost loop.                              *)
(***************************************************************************)
VARIABLES
    store,      \* the list objects
    image,      \* reference of the caller's image
    message,    \* the caller's message
    encoded,    \* reference returned by encode (0: not called yet)
    decodedOf,  \* reference decode was called on (0: not called yet)
    decoded,    \* the string decode returned
    pc,         \* SpecDecode: where the unfolded call of decode is
    d,          \* SpecDecode: output, curr_chunk of the unfolded call
    cursor,     \* SpecDecode: <<row, pixel, channel>> the loops are at (1-based)
    reads       \* SpecDecode: the slots read so far, in the order read

vars == <<store, image, message, encoded, decodedOf, decoded, pc, d, cursor, reads>>

Init ==
    /\ \E g \in Grids : store = StoreOf(g) /\ image = Len(g) + 1
    /\ message \in Messages
    /\ encoded = 0
    /\ decodedOf = 0
    /\ decoded = <<>>
    /\ pc = "calls"
    /\ d = DecodeStart
    /\ cursor = <<1, 1, 1>>
    /\ reads = <<>>

Encode ==
    /\ pc = "calls"
    /\ encoded = 0
    /\ LET r == encode(store, image, message)
       IN store' = r.store /\ encoded' = r.output
    /\ UNCHANGED <<image, message, decodedOf, decoded, pc, d, cursor, reads>>

Decode ==
    /\ pc = "calls"
    /\ decodedOf = 0
    /\ \E ref \in {image, encoded} \ {0} :
          /\ decodedOf' = ref
          /\ decoded' = decode(store, ref)
    /\ UNCHANGED <<store, image, message, encoded, pc, d, cursor, reads>>

Next == Encode \/ Decode

Spec == Init /\ [][Next]_vars

(***************************************************************************)
(* decode, one channel value at a time.                                    *)
(***************************************************************************)
\* The slot the three nested for loops of lines 229-231 yield next from
\* position cur on, <<>> when they are exhausted.
RECURSIVE NextSlot(_, _)
NextSlot(grid, cur) ==
    IF cur[1] > Len(grid) THEN <<>>
    ELSE IF cur[2] > Len(grid[cur[1]]) THEN NextSlot(grid, <<cur[1] + 1, 1, 1>>)
    ELSE IF cur[3] > Len(grid[cur[1]][cur[2]]) THEN NextSlot(grid, <<cur[1], cur[2] + 1, 1>>)
    ELSE cur

\* What decode is called on: any image, among them those encode produced.
DecodeInputs ==
    {[store |-> StoreOf(g), output |-> Len(g) + 1] : g \in Grids}
    \cup {encode(StoreOf(MakeGrid(h, w, a, 2)), h + 1, m) :
             h \in 0..MaxRows, w \in 0..MaxCols, a \in Arities, m \in Messages}

InitDecode ==
    /\ \E in \in DecodeInputs : store = in.store /\ image = in.output
    /\ message = <<>>
    /\ encoded = 0
    /\ decodedOf = image
    /\ decoded = <<>>
    /\ pc = "ACCUMULATING"
    /\ d = DecodeStart
    /\ cursor = <<1, 1, 1>>
    /\ reads = <<>>

\* Lines 231-240: one iteration of the innermost loop; line 237 returns.
DecodeRead ==
    /\ pc = "ACCUMULATING"
    /\ LET grid == Value(store, image)
           slot == NextSlot(grid, cursor)
       IN /\ slot # <<>>
          /\ LET after == DecodeNum(d, grid[slot[1]][slot[2]][slot[3]])
             IN /\ d' = after
                /\ pc' = IF after.returned THEN "TERMINATED" ELSE "ACCUMULATING"
                /\ decoded' = IF after.returned THEN after.output ELSE decoded
          /\ cursor' = <<slot[1], slot[2], slot[3] + 1>>
          /\ reads' = Append(reads, slot)
    /\ UNCHANGED <<store, image, message, encoded, decodedOf>>

\* Line 241: the loops are exhausted and decode returns what it accumulated.
DecodeExhausted ==
    /\ pc = "ACCUMULATING"
    /\ NextSlot(Value(store, image), cursor) = <<>>
    /\ pc' = "EXHAUSTED"
    /\ decoded' = d.output
    /\ UNCHANGED <<store, image, message, encoded, decodedOf, d, cursor, reads>>

NextDecode == DecodeRead \/ DecodeExhausted

SpecDecode == InitDecode /\ [][NextDecode]_vars

\* The unfolded call returns what the call as one step returns.
UnfoldedAgrees ==
    pc \in {"TERMINATED", "EXHAUSTED"} => decoded = decode(store, image)

(***************************************************************************)
(* Vocabulary of the properties, defined without the operators above.      *)
(***************************************************************************)
RECURSIVE Concat(_)
Concat(ss) == IF ss = <<>> THEN <<>> ELSE Head(ss) \o Concat(Tail(ss))

\* The channel values of a grid in row-major, then pixel, then channel order.
Channels(g) == Concat([r \in 1..Len(g) |-> Concat(g[r])])

\* The coordinates <<row, pixel, channel>> of the slots in the same order.
SlotsInOrder(g) ==
    Concat([r \in 1..Len(g) |->
        Concat([c \in 1..Len(g[r]) |-> [ch \in 1..Len(g[r][c]) |-> <<r, c, ch>>]])])

Capacity(g) == Len(Channels(g))

\* The least significant bits of the slots, slot i (0-based) at position i + 1.
Lsbs(g) == [i \in 1..Capacity(g) |-> Channels(g)[i] % 2]

\* Bit i (0-based) of the bit-stream of message m: 8 bits a character, MSB first.
BitAt(m, i) ==
    (m[(i \div BYTE_LENGTH) + 1] \div Pow2(BYTE_LENGTH - 1 - (i % BYTE_LENGTH))) % 2

\* The 8-aligned group j (0-based) of a bit sequence: slots 8j .. 8j+7.
GroupIsZero(l, j) == \A t \in 1..BYTE_LENGTH : l[BYTE_LENGTH * j + t] = 0
GroupCode(l, j) ==
    128 * l[8 * j + 1] + 64 * l[8 * j + 2] + 32 * l[8 * j + 3] + 16 * l[8 * j + 4]
    + 8 * l[8 * j + 5] + 4 * l[8 * j + 6] + 2 * l[8 * j + 7] + l[8 * j + 8]
NoZeroGroupBefore(l, n) == \A j \in 0..(n - 1) : ~GroupIsZero(l, j)

NulFree(m) == \A i \in 1..Len(m) : m[i] # 0
Min(a, b) == IF a <= b THEN a ELSE b

Original == Value(store, image)
Encoded == Value(store, encoded)
Decoded == Value(store, decodedOf)
RoundTripped == encoded # 0 /\ decodedOf = encoded

SameShape(g, h) ==
    /\ Len(h) = Len(g)
    /\ \A r \in 1..Len(g) :
          /\ Len(h[r]) = Len(g[r])
          /\ \A c \in 1..Len(g[r]) : Len(h[r][c]) = Len(g[r][c])

(***************************************************************************)
(* C1. Round trip: a message without NUL whose bit length is strictly less *)
(* than the capacity of the grid minus 8 is what decode returns for the    *)
(* encoded grid.                                                           *)
(***************************************************************************)
C1_RoundTrip ==
    (RoundTripped /\ NulFree(message)
       /\ BYTE_LENGTH * Len(message) < Capacity(Original) - BYTE_LENGTH)
    => decoded = message

C1_Witness ==
    /\ RoundTripped /\ NulFree(message) /\ Len(message) >= 1
    /\ BYTE_LENGTH * Len(message) < Capacity(Original) - BYTE_LENGTH
    /\ decoded = message

(***************************************************************************)
(* C2. Slot rule and truncation: the encoded grid has as many slots as the *)
(* original; the LSB of slot i is bit i of the message's bit-stream for    *)
(* every i below its length and 0 from there on, so that of a bit-stream   *)
(* longer than the capacity k exactly the first k bits are embedded; every *)
(* value written is a number (no error).                                   *)
(***************************************************************************)
C2_SlotRule ==
    encoded # 0 =>
        LET out == Channels(Encoded)
        IN /\ Len(out) = Capacity(Original)
           /\ \A i \in 0..(Len(out) - 1) :
                 /\ out[i + 1] \in Nat
                 /\ out[i + 1] % 2 =
                       IF i < BYTE_LENGTH * Len(message) THEN BitAt(message, i) ELSE 0

C2_Witness ==
    /\ encoded # 0
    /\ Capacity(Original) > BYTE_LENGTH
    /\ BYTE_LENGTH * Len(message) > Capacity(Original)
    /\ \E i \in 1..Capacity(Original) : Lsbs(Encoded)[i] # Lsbs(Original)[i]

(***************************************************************************)
(* C3. LSB-only change: every slot of the encoded grid agrees with the     *)
(* same slot of the original on all bits above bit 0, and is in 0..255     *)
(* when the original value is.                                             *)
(***************************************************************************)
C3_LsbOnly ==
    encoded # 0 =>
        LET g == Original
            h == Encoded
        IN \A r \in 1..Len(g) : \A c \in 1..Len(g[r]) : \A ch \in 1..Len(g[r][c]) :
              /\ r <= Len(h) /\ c <= Len(h[r]) /\ ch <= Len(h[r][c])
              /\ h[r][c][ch] \div 2 = g[r][c][ch] \div 2
              /\ (g[r][c][ch] \in 0..255 => h[r][c][ch] \in 0..255)

C3_Witness ==
    /\ encoded # 0
    /\ SameShape(Original, Encoded)
    /\ \E r \in 1..Len(Original) : \E c \in 1..Len(Original[r]) :
          \E ch \in 1..Len(Original[r][c]) :
             /\ Original[r][c][ch] >= 128
             /\ Encoded[r][c][ch] # Original[r][c][ch]

(***************************************************************************)
(* C4. Non-mutation: no step changes a list object that exists before it   *)
(* (the rows of the caller's image and the list of them among these), and  *)
(* the reference encode returns, like the rows it holds, is of an object   *)
(* that did not exist before the call, for every message and grid.         *)
(***************************************************************************)
C4_NonMutation ==
    [][/\ Len(store') >= Len(store)
       /\ \A ref \in 1..Len(store) : store'[ref] = store[ref]
       /\ encoded' # encoded =>
             /\ encoded' \notin 1..Len(store)
             /\ \A r \in 1..Len(store'[encoded']) :
                   store'[encoded'][r] \notin 1..Len(store)]_vars

C4_Witness ==
    /\ encoded # 0
    /\ encoded # image
    /\ Len(Original) >= 1
    /\ Encoded # Original

(***************************************************************************)
(* C5. Dimension preservation: the encoded grid has the rows of the        *)
(* original, each row its number of pixels and each pixel its number of    *)
(* channels, empty grids and empty rows included.                          *)
(***************************************************************************)
C5_Dimensions == encoded # 0 => SameShape(Original, Encoded)

C5_Witness ==
    /\ encoded # 0
    /\ Len(Original) >= 2
    /\ Len(Original[1]) >= 2
    /\ SameShape(Original, Encoded)

(***************************************************************************)
(* C6. Terminator detection.  As stated: whenever the 8 slots from         *)
(* position p on (p a multiple of 8) all have LSB 0, decode returns        *)
(* exactly p/8 characters.  As amended: whenever they do and no 8-aligned  *)
(* group before position p is all zero, decode returns exactly p/8         *)
(* characters.                                                             *)
(***************************************************************************)
C6_AsStated ==
    decodedOf # 0 =>
        LET l == Lsbs(Decoded)
        IN \A n \in 0..((Len(l) \div BYTE_LENGTH) - 1) :
              GroupIsZero(l, n) => Len(decoded) = n

C6_TerminatorDetection ==
    decodedOf # 0 =>
        LET l == Lsbs(Decoded)
        IN \A n \in 0..((Len(l) \div BYTE_LENGTH) - 1) :
              (GroupIsZero(l, n) /\ NoZeroGroupBefore(l, n)) => Len(decoded) = n

C6_Witness ==
    /\ decodedOf # 0
    /\ LET l == Lsbs(Decoded)
       IN \E n \in 1..((Len(l) \div BYTE_LENGTH) - 1) :
             GroupIsZero(l, n) /\ NoZeroGroupBefore(l, n) /\ Len(decoded) = n

(***************************************************************************)
(* C7. Missing terminator: for a grid of capacity k none of whose          *)
(* 8-aligned LSB groups is all zero, decode returns exactly floor(k/8)     *)
(* characters, character j the one coded by the LSBs of slots 8j..8j+7     *)
(* read MSB first; the last k mod 8 bits are dropped and no error value    *)
(* appears.                                                                *)
(***************************************************************************)
C7_MissingTerminator ==
    decodedOf # 0 =>
        LET l == Lsbs(Decoded)
            n == Len(l) \div BYTE_LENGTH
        IN NoZeroGroupBefore(l, n) =>
              /\ Len(decoded) = n
              /\ \A j \in 0..(n - 1) : decoded[j + 1] = GroupCode(l, j)

C7_Witness ==
    /\ decodedOf # 0
    /\ LET l == Lsbs(Decoded)
           n == Len(l) \div BYTE_LENGTH
       IN /\ n >= 2
          /\ Len(l) % BYTE_LENGTH # 0
          /\ NoZeroGroupBefore(l, n)
          /\ Len(decoded) = n

(***************************************************************************)
(* C8. Decode state machine: decode starts ACCUMULATING with an empty      *)
(* buffer and nothing emitted; the slots read so far are an initial        *)
(* segment of the slots in row-major, pixel, channel order (so each is     *)
(* read at most once); while ACCUMULATING the buffer holds the bits read   *)
(* since the last multiple of 8, one character has been emitted for every  *)
(* complete group, and none of those groups is all zero; TERMINATED is     *)
(* entered exactly on reading the last slot of the first 8-aligned zero    *)
(* group and returns the characters of the groups before it; once          *)
(* TERMINATED nothing is read and nothing changes, so the result is a      *)
(* function of the slots up to that group alone.                           *)
(***************************************************************************)
ReadBits == [i \in 1..Len(reads) |-> Original[reads[i][1]][reads[i][2]][reads[i][3]] % 2]

C8_State ==
    LET l == ReadBits
        n == Len(l) \div BYTE_LENGTH
        emitted(str, m) ==
            /\ Len(str) = m
            /\ \A j \in 0..(m - 1) : str[j + 1] = GroupCode(l, j)
    IN /\ reads = SubSeq(SlotsInOrder(Original), 1, Len(reads))
       /\ reads = <<>> => pc # "TERMINATED" /\ d.output = <<>> /\ d.curr_chunk = <<>>
       /\ pc = "ACCUMULATING" =>
             /\ d.curr_chunk = SubSeq(l, BYTE_LENGTH * n + 1, Len(l))
             /\ emitted(d.output, n)
             /\ NoZeroGroupBefore(l, n)
       /\ pc = "TERMINATED" =>
             /\ Len(l) = BYTE_LENGTH * n /\ n >= 1
             /\ GroupIsZero(l, n - 1)
             /\ NoZeroGroupBefore(l, n - 1)
             /\ emitted(decoded, n - 1)
       /\ pc = "EXHAUSTED" =>
             /\ Len(reads) = Capacity(Original)
             /\ NoZeroGroupBefore(l, n)
             /\ emitted(decoded, n)

C8_Step ==
    /\ reads' # reads => pc = "ACCUMULATING" /\ Len(reads') = Len(reads) + 1
    /\ pc = "TERMINATED" => pc' = pc /\ reads' = reads /\ decoded' = decoded /\ d' = d

C8_DecodeStateMachine == [](C8_State) /\ [][C8_Step]_vars

C8_Witness ==
    /\ pc = "TERMINATED"
    /\ Len(reads) >= 2 * BYTE_LENGTH
    /\ Len(decoded) >= 1
    /\ \E i \in (Len(reads) + 1)..Capacity(Original) : Lsbs(Original)[i] = 1

(***************************************************************************)
(* C9. NUL collision: when the first NUL of the message is at index j      *)
(* (0-based) and the grid has at least 8 * (j + 1) slots, decode returns   *)
(* for the encoded grid exactly the j characters before that NUL.          *)
(***************************************************************************)
FirstNul(m) == CHOOSE j \in 0..(Len(m) - 1) : m[j + 1] = 0 /\ NulFree(SubSeq(m, 1, j))

C9_NulCollision ==
    (RoundTripped /\ ~NulFree(message)
       /\ Capacity(Original) >= BYTE_LENGTH * (FirstNul(message) + 1))
    => decoded = SubSeq(message, 1, FirstNul(message))

C9_Witness ==
    /\ RoundTripped /\ ~NulFree(message)
    /\ FirstNul(message) >= 1
    /\ Len(message) > FirstNul(message) + 1
    /\ Capacity(Original) >= BYTE_LENGTH * Len(message)
    /\ decoded = SubSeq(message, 1, FirstNul(message))

(***************************************************************************)
(* C10. Round trip at and beyond capacity: for a grid of capacity k and a  *)
(* message m without NUL, decode returns for the encoded grid the first    *)
(* min(len(m), floor(k/8)) characters of m.                                *)
(***************************************************************************)
C10_RoundTripAtCapacity ==
    (RoundTripped /\ NulFree(message))
    => decoded = SubSeq(message, 1,
                        Min(Len(message), Capacity(Original) \div BYTE_LENGTH))

C10_Witness ==
    /\ RoundTripped /\ NulFree(message)
    /\ Len(message) >= 1
    /\ Capacity(Original) = BYTE_LENGTH * Len(message)
    /\ decoded = message

====
